---- MODULE Spec2Model ----
(***************************************************************************)
(* Garden31LogSync: the Tend export pipeline of src/main.py.               *)
(*                                                                         *)
(* A text value (a CSV cell, a column name, a file name, a folder path) is *)
(* a sequence of chunks; a chunk is a run of characters the code never     *)
(* looks inside (a word, a digit, a blank, a comma, the " - " separator).  *)
(* str.strip, str.lower, str.split, str.replace and str.endswith are       *)
(* computed on the chunks.                                                 *)
(***************************************************************************)
EXTENDS Integers, Sequences, FiniteSets, TLC

\* ------------------------------------------------------------------ bounds

\* Physical rows of a CSV file drawn for the parsing stages.
MaxRows == 3
\* Entries of the target folder's listing.
MaxFiles == 3
\* Distinct last-modified instants of the entries.
MaxTime == 3
\* Pipeline runs over one store (main is run again and again).
MaxRuns == 2
\* Change notifications posted to the webhook.
MaxPosts == 2

\* ------------------------------------------------------------------- text

SP == " "
COMMA == ","
DASH == "-"
\* The separator of a composite Planting value, " - ".
SEP == <<SP, DASH, SP>>
SLASH == "/"

\* Python's None and pandas' NaN, as values no CSV cell can hold.
None == <<"<None>">>
NaN == <<"<NaN>">>

Str(c) == <<c>>
Empty == <<>>

\* str.lower on one chunk.
LowerChunk(c) ==
    CASE c = "Task Id" -> "task id"
      [] c = "Task Type" -> "task type"
      [] c = "TASK TYPE" -> "task type"
      [] c = "Start Date" -> "start date"
      [] c = "Planting" -> "planting"
      [] c = "Seeds Needed" -> "seeds needed"
      [] c = "Location" -> "location"
      [] c = "In-row Spacing" -> "in-row spacing"
      [] c = "In-Row Spacing" -> "in-row spacing"
      [] c = "In row Spacing" -> "in row spacing"
      [] c = "In Row Spacing" -> "in row spacing"
      [] c = "Container Sow" -> "container sow"
      [] c = "CONTAINER SOW" -> "container sow"
      [] c = "Transplant" -> "transplant"
      [] c = "TRANSPLANT" -> "transplant"
      [] c = "Precision Sow" -> "precision sow"
      [] c = "Foo" -> "foo"
      [] c = ".CSV" -> ".csv"
      [] c = ".Csv" -> ".csv"
      [] OTHER -> c

StrLower(s) == [i \in 1..Len(s) |-> LowerChunk(s[i])]

RECURSIVE LStrip(_)
LStrip(s) == IF s # <<>> /\ Head(s) = SP THEN LStrip(Tail(s)) ELSE s

RECURSIVE RStrip(_)
RStrip(s) ==
    IF s # <<>> /\ s[Len(s)] = SP THEN RStrip(SubSeq(s, 1, Len(s) - 1)) ELSE s

\* str.strip
StrStrip(s) == RStrip(LStrip(s))

\* str.replace(c, ""): every chunk c removed.
RECURSIVE StrRemove(_, _)
StrRemove(s, c) ==
    IF s = <<>> THEN <<>>
    ELSE IF Head(s) = c THEN StrRemove(Tail(s), c)
    ELSE <<Head(s)>> \o StrRemove(Tail(s), c)

\* str.split(c): the pieces between the occurrences of chunk c.
RECURSIVE StrSplit(_, _)
StrSplit(s, c) ==
    IF \A i \in 1..Len(s) : s[i] # c THEN <<s>>
    ELSE LET k == CHOOSE i \in 1..Len(s) :
                      s[i] = c /\ \A j \in 1..(i - 1) : s[j] # c
         IN  <<SubSeq(s, 1, k - 1)>> \o StrSplit(SubSeq(s, k + 1, Len(s)), c)

\* Whether the separator sep stands at position i of s.
SepAt(s, sep, i) ==
    /\ i + Len(sep) - 1 <= Len(s)
    /\ SubSeq(s, i, i + Len(sep) - 1) = sep

\* str.split(sep) for a separator of several chunks: the pieces between its
\* occurrences, found from the left and not overlapping.
RECURSIVE StrSplitOn(_, _)
StrSplitOn(s, sep) ==
    IF \A i \in 1..Len(s) : ~SepAt(s, sep, i) THEN <<s>>
    ELSE LET k == CHOOSE i \in 1..Len(s) :
                      SepAt(s, sep, i) /\ \A j \in 1..(i - 1) : ~SepAt(s, sep, j)
         IN  <<SubSeq(s, 1, k - 1)>> \o StrSplitOn(SubSeq(s, k + Len(sep), Len(s)), sep)

\* str.endswith
StrEndsWith(s, c) == s # <<>> /\ s[Len(s)] = c

\* str(value) of a DataFrame cell (Series.astype(str)): NaN prints as "nan".
AsStr(v) == IF v = NaN THEN Str("nan") ELSE v

Range(s) == {s[i] : i \in 1..Len(s)}

\* The distinct elements of s, in the order of their first occurrence.
RECURSIVE Dedupe(_)
Dedupe(s) ==
    IF s = <<>> THEN <<>>
    ELSE LET init == Dedupe(SubSeq(s, 1, Len(s) - 1))
         IN  IF s[Len(s)] \in Range(init) THEN init ELSE init \o <<s[Len(s)]>>

\* ------------------------------------------------------ the sectioned CSV

TASK_ID == Str("Task Id")

\* clean_headers: every cell trimmed, then the trailing empty cells popped.
RECURSIVE PopTrailingEmpty(_)
PopTrailingEmpty(hs) ==
    IF hs # <<>> /\ hs[Len(hs)] = Empty
    THEN PopTrailingEmpty(SubSeq(hs, 1, Len(hs) - 1))
    ELSE hs

clean_headers(headers) ==
    PopTrailingEmpty([i \in 1..Len(headers) |-> StrStrip(headers[i])])

\* A fit that pads with None.
FitRowPadNone(headers, row) ==
    IF Len(row) > Len(headers) THEN SubSeq(row, 1, Len(headers))
    ELSE row \o [i \in 1..(Len(headers) - Len(row)) |-> None]

\* The row cut or padded to the header's length (main.py 293-296).
FitRow(headers, row) ==
    IF Len(row) > Len(headers) THEN SubSeq(row, 1, Len(headers))
    ELSE row \o [i \in 1..(Len(headers) - Len(row)) |-> Empty]

\* row_to_dict: a Python dict, as its keys in insertion order and its values;
\* of two header cells with one name the later cell's value stays.
row_to_dict(headers, row) ==
    LET fit == FitRow(headers, row)
        last(k) == CHOOSE i \in 1..Len(headers) :
                       headers[i] = k /\ \A j \in (i + 1)..Len(headers) : headers[j] # k
    IN  [keys |-> Dedupe(headers),
         val  |-> [k \in Range(headers) |-> fit[last(k)]]]

\* dict.get(key), None when the key is absent.
DictGet(rec, k) == IF k \in DOMAIN rec.val THEN rec.val[k] ELSE None

\* Python truthiness of a dict.get result.
Truthy(v) == v # None /\ v # Empty

\* The loop of read_tend_multisection_csv over rows[i..]; current_headers is
\* <<>> for None and <<h>> for the header list h.
RECURSIVE ReadRows(_, _, _, _)
ReadRows(rows, i, current_headers, all_rows) ==
    IF i > Len(rows) THEN all_rows
    ELSE LET row == rows[i] IN
         IF row = <<>> THEN ReadRows(rows, i + 1, current_headers, all_rows)
         ELSE IF StrStrip(row[1]) = TASK_ID
              THEN ReadRows(rows, i + 1, <<clean_headers(row)>>, all_rows)
         ELSE IF current_headers = <<>>
              THEN ReadRows(rows, i + 1, current_headers, all_rows)
         ELSE LET rec == row_to_dict(current_headers[1], row) IN
              IF ~Truthy(DictGet(rec, TASK_ID))
              THEN ReadRows(rows, i + 1, current_headers, all_rows)
              ELSE ReadRows(rows, i + 1, current_headers, Append(all_rows, rec))

\* A reader that keeps the first header it sees for the whole file.
RECURSIVE ReadRowsFirstHeader(_, _, _, _)
ReadRowsFirstHeader(rows, i, current_headers, all_rows) ==
    IF i > Len(rows) THEN all_rows
    ELSE LET row == rows[i] IN
         IF row = <<>> THEN ReadRowsFirstHeader(rows, i + 1, current_headers, all_rows)
         ELSE IF StrStrip(row[1]) = TASK_ID
              THEN ReadRowsFirstHeader(rows, i + 1,
                       IF current_headers = <<>> THEN <<clean_headers(row)>>
                       ELSE current_headers, all_rows)
         ELSE IF current_headers = <<>>
              THEN ReadRowsFirstHeader(rows, i + 1, current_headers, all_rows)
         ELSE LET rec == row_to_dict(current_headers[1], row) IN
              IF ~Truthy(DictGet(rec, TASK_ID))
              THEN ReadRowsFirstHeader(rows, i + 1, current_headers, all_rows)
              ELSE ReadRowsFirstHeader(rows, i + 1, current_headers, Append(all_rows, rec))

read_all_rows_first_header(rows) == ReadRowsFirstHeader(rows, 1, <<>>, <<>>)

\* all_rows of read_tend_multisection_csv at the end of the file.
read_all_rows(rows) == ReadRows(rows, 1, <<>>, <<>>)

\* pd.DataFrame(list of dicts): the columns are the keys in the order they
\* first appear, and a row has NaN in the columns its dict lacks.
RECURSIVE UnionKeys(_)
UnionKeys(recs) ==
    IF recs = <<>> THEN <<>>
    ELSE Dedupe(UnionKeys(SubSeq(recs, 1, Len(recs) - 1)) \o recs[Len(recs)].keys)

DataFrame(recs) ==
    LET cols == UnionKeys(recs)
    IN  [columns |-> cols,
         rows    |-> [i \in 1..Len(recs) |->
                        [c \in Range(cols) |->
                            IF c \in DOMAIN recs[i].val THEN recs[i].val[c] ELSE NaN]]]

read_tend_multisection_csv(rows) == DataFrame(read_all_rows(rows))

\* DataFrame.empty
DfEmpty(df) == Len(df.rows) = 0 \/ Len(df.columns) = 0

\* --------------------------------------------------------- field coercers

\* Cells datetime.strptime(s, "%m/%d/%Y") accepts, and cells only
\* dateutil's parser accepts; every other cell makes both raise.
StrictDates == {"03/14/2024", "12/01/2024"}
FallbackDates == {"2024-03-14", "14 Mar 2024"}

IsoDate(c) ==
    CASE c = "03/14/2024" -> "2024-03-14"
      [] c = "12/01/2024" -> "2024-12-01"
      [] c = "2024-03-14" -> "2024-03-14"
      [] c = "14 Mar 2024" -> "2024-03-14"
      [] OTHER -> c

\* A parse_date that hands back the text it cannot read.
parse_date_or_text(value) ==
    IF value = None \/ value = NaN THEN None
    ELSE LET s == StrStrip(value) IN
         IF s = Empty THEN None
         ELSE IF Len(s) = 1 /\ s[1] \in StrictDates \cup FallbackDates
              THEN Str(IsoDate(s[1]))
         ELSE s

parse_date(value) ==
    IF value = None \/ value = NaN THEN None
    ELSE LET s == StrStrip(value) IN
         IF s = Empty THEN None
         ELSE IF Len(s) = 1 /\ s[1] \in StrictDates THEN Str(IsoDate(s[1]))
         ELSE IF Len(s) = 1 /\ s[1] \in FallbackDates THEN Str(IsoDate(s[1]))
         ELSE None

to_number(value) ==
    IF value = None THEN None
    ELSE LET s == StrStrip(AsStr(value)) IN
         IF s = Empty THEN None ELSE StrRemove(s, COMMA)

\* [p.strip() for p in parts if p.strip()]
RECURSIVE StrippedNonEmpty(_)
StrippedNonEmpty(parts) ==
    IF parts = <<>> THEN <<>>
    ELSE IF StrStrip(Head(parts)) = Empty THEN StrippedNonEmpty(Tail(parts))
    ELSE <<StrStrip(Head(parts))>> \o StrippedNonEmpty(Tail(parts))

split_planting(value) ==
    IF value = None THEN <<None, None>>
    ELSE LET s == StrStrip(AsStr(value)) IN
         IF s = Empty THEN <<None, None>>
         ELSE LET parts == StrippedNonEmpty(StrSplitOn(s, SEP))
              IN  <<IF Len(parts) >= 1 THEN parts[1] ELSE None,
                    IF Len(parts) >= 2 THEN parts[2] ELSE None>>

\* -------------------------------------------------------------- transform

required_base ==
    {"Task Id", "Task Type", "Start Date", "Planting", "Seeds Needed", "Location"}

optional ==
    {"In-row Spacing", "In-Row Spacing", "In row Spacing", "In Row Spacing"}

\* The orders in which Python may iterate the set `optional` (string hashes
\* are seeded per process), as far as the lower-cased spellings differ.
OptionalOrders ==
    {<<"In-row Spacing", "In-Row Spacing", "In row Spacing", "In Row Spacing">>,
     <<"In Row Spacing", "In row Spacing", "In-Row Spacing", "In-row Spacing">>}

\* df_columns_lower = {col.lower(): col for col in df.columns}: of the
\* columns with one lower-cased name the last one stays.
HasLower(df, low) == \E i \in 1..Len(df.columns) : StrLower(df.columns[i]) = low

df_columns_lower(df, low) ==
    LET i == CHOOSE i \in 1..Len(df.columns) :
                 /\ StrLower(df.columns[i]) = low
                 /\ \A j \in (i + 1)..Len(df.columns) : StrLower(df.columns[j]) # low
    IN  df.columns[i]

\* A check that reports one missing column only.
first_missing(df) ==
    LET all == {req \in required_base : ~HasLower(df, StrLower(Str(req)))}
    IN  IF all = {} THEN {} ELSE {CHOOSE req \in all : TRUE}

missing_required(df) ==
    {req \in required_base : ~HasLower(df, StrLower(Str(req)))}

required_found(df, req) == df_columns_lower(df, StrLower(Str(req)))

\* The first spelling, in iteration order, with a matching column; <<>> when
\* there is none (spacing_col = None), else <<column>>.
RECURSIVE spacing_col(_, _)
spacing_col(df, order) ==
    IF order = <<>> THEN <<>>
    ELSE IF HasLower(df, StrLower(Str(Head(order))))
         THEN <<df_columns_lower(df, StrLower(Str(Head(order))))>>
    ELSE spacing_col(df, Tail(order))

OutColumns ==
    {"Tend ID", "task_type", "Date", "Plant Name", "Variety", "Quantity",
     "Location", "Spacing"}

\* out.replace({"": None}) and out.where(pd.notnull(out), None) on one cell.
NoneIfBlank(v) == IF v = Empty \/ v = NaN THEN None ELSE v

\* One row of `out` before dropna (main.py 401-415).
OutRow(df, r, sp) ==
    LET planting == split_planting(r[required_found(df, "Planting")])
        raw == [c \in OutColumns |->
                 CASE c = "Tend ID" -> StrStrip(AsStr(r[required_found(df, "Task Id")]))
                   [] c = "task_type" -> StrStrip(AsStr(r[required_found(df, "Task Type")]))
                   [] c = "Date" -> parse_date(r[required_found(df, "Start Date")])
                   [] c = "Plant Name" -> planting[1]
                   [] c = "Variety" -> planting[2]
                   [] c = "Quantity" -> to_number(r[required_found(df, "Seeds Needed")])
                   [] c = "Location" -> StrStrip(AsStr(r[required_found(df, "Location")]))
                   [] c = "Spacing" -> IF sp = <<>> THEN None ELSE to_number(r[sp[1]])]
    IN  [c \in OutColumns |-> NoneIfBlank(raw[c])]

\* A dropna that drops nothing.
keep_all_rows(out) == out

\* out.dropna(subset=["Tend ID"])
RECURSIVE dropna(_)
dropna(out) ==
    IF out = <<>> THEN <<>>
    ELSE IF Head(out)["Tend ID"] = None THEN dropna(Tail(out))
    ELSE <<Head(out)>> \o dropna(Tail(out))

\* transform(df) under one iteration order of `optional`: the ValueError of
\* main.py 372-374, or the normalized rows.
transform(df, order) ==
    IF missing_required(df) # {}
    THEN [error |-> "ValueError", missing |-> missing_required(df),
          available |-> Range(df.columns), rows |-> <<>>]
    ELSE LET sp == spacing_col(df, order)
         IN  [error |-> "", missing |-> {}, available |-> Range(df.columns),
              rows |-> dropna([i \in 1..Len(df.rows) |-> OutRow(df, df.rows[i], sp)])]

\* ---------------------------------------------------------------- routing

\* Series.str.lower() on a cell: a missing value stays missing.
SeriesLower(v) == IF v = None THEN None ELSE StrLower(v)

\* A comparison of the discriminant that forgets str.lower().
IsContainerSowCaseSensitive(rec) == rec["task_type"] = Str("container sow")

IsContainerSow(rec) == SeriesLower(rec["task_type"]) = Str("container sow")

IsRowPlanting(rec) ==
    SeriesLower(rec["task_type"]) \in {Str("transplant"), Str("precision sow")}

map_direct_transplant(tt) ==
    IF tt = None THEN None
    ELSE LET t == StrLower(StrStrip(tt)) IN
         IF t = Str("transplant") THEN Str("Transplant")
         ELSE IF t = Str("precision sow") THEN Str("Direct")
         ELSE None

\* A projection for gh_planting_log that keeps the routing column.
GhColumnsWithTaskType ==
    {"Tend ID", "task_type", "Date", "Plant Name", "Variety", "Quantity"}

GhColumns == {"Tend ID", "Date", "Plant Name", "Variety", "Quantity"}

RowColumns ==
    {"Tend ID", "Date", "Plant Name", "Variety", "Location", "Spacing",
     "Direct/Transplant"}

RECURSIVE SelectGh(_)
SelectGh(norm) ==
    IF norm = <<>> THEN <<>>
    ELSE IF IsContainerSow(Head(norm)) THEN <<Head(norm)>> \o SelectGh(Tail(norm))
    ELSE SelectGh(Tail(norm))

RECURSIVE SelectRow(_)
SelectRow(norm) ==
    IF norm = <<>> THEN <<>>
    ELSE IF IsRowPlanting(Head(norm)) THEN <<Head(norm)>> \o SelectRow(Tail(norm))
    ELSE SelectRow(Tail(norm))

\* gh_df (main.py 456) and gh_rows (458-460).
gh_df(norm) == SelectGh(norm)

gh_rows(norm) ==
    [i \in 1..Len(gh_df(norm)) |-> [c \in GhColumns |-> gh_df(norm)[i][c]]]

\* row_df with its Direct/Transplant column (465-479) and row_payload (481-483).
row_df(norm) ==
    [i \in 1..Len(SelectRow(norm)) |->
        [c \in OutColumns \cup {"Direct/Transplant"} |->
            IF c = "Direct/Transplant"
            THEN map_direct_transplant(SelectRow(norm)[i]["task_type"])
            ELSE SelectRow(norm)[i][c]]]

row_payload(norm) ==
    [i \in 1..Len(row_df(norm)) |-> [c \in RowColumns |-> row_df(norm)[i][c]]]

\* ------------------------------------------------------- the remote store

DEFAULT_DRIVE == "e3ae2c9f-a183-4c5e-9d3a-d6c0d8258870"

GARDEN == Str("Garden 31")
EXPORTS == Str("Tend Exports")

\* lastModifiedDateTime strings of the store, oldest first.
TimeStrings ==
    <<"2024-03-01T10:00:00Z", "2024-03-02T09:30:00Z", "2024-03-03T08:00:00Z",
      "2024-03-04T07:00:00Z">>

\* dateparser.parse(it["lastModifiedDateTime"]): the instant, as a number.
dateparser_parse(s) == CHOOSE t \in 1..Len(TimeStrings) : TimeStrings[t] = s

\* A driveItem of a children listing; `folder` is the presence of the
\* "folder" facet.
Item(id, name, isFolder, t) ==
    [id |-> id, name |-> name, folder |-> isFolder,
     lastModifiedDateTime |-> TimeStrings[t], driveId |-> "drive-1"]

Kinds == {"folder", "file", "absent"}

\* The files the listing of the target folder is drawn from.
FileIds == {"f1", "f2", "f3"}

FileName(id) ==
    CASE id = "f1" -> <<"export_a", ".csv">>
      [] id = "f2" -> <<"export_b", ".CSV">>
      [] id = "f3" -> <<"notes", ".txt">>
      [] id = "f4" -> <<"export_c", ".Csv">>
      [] id = "f5" -> <<"export_d", ".csv">>
      [] OTHER -> <<"old", ".csv">>

\* The drive: for "root" and every folder id, the listing of its children.
\* gk and ek say what the items named "Garden 31" (in the root) and
\* "Tend Exports" (in it) are; leaf is the listing of Garden 31/Tend Exports.
Tree(gk, ek, leaf) ==
    [k \in {"root", "g", "e", "ar", "o", "oe"} |->
        CASE k = "root" ->
                 <<Item("r1", <<"readme", ".txt">>, FALSE, 1)>>
                 \o (IF gk = "absent" THEN <<>>
                     ELSE <<Item("g", GARDEN, gk = "folder", 1)>>)
                 \o <<Item("o", Str("Other"), TRUE, 1)>>
          [] k = "g" ->
                 IF gk # "folder" THEN <<>>
                 ELSE <<Item("ar", Str("Archive"), TRUE, 1)>>
                      \o (IF ek = "absent" THEN <<>>
                          ELSE <<Item("e", EXPORTS, ek = "folder", 1)>>)
          [] k = "e" -> IF gk = "folder" /\ ek = "folder" THEN leaf ELSE <<>>
          [] k = "ar" -> <<Item("old", FileName("old"), FALSE, 1)>>
          [] k = "o" -> <<Item("oe", EXPORTS, TRUE, 1)>>
          [] k = "oe" -> <<Item("f3", FileName("f3"), FALSE, 1)>>]

\* Listings of at most MaxFiles files with distinct ids.
RECURSIVE Listings(_)
Listings(n) ==
    IF n = 0 THEN {<<>>}
    ELSE LET shorter == Listings(n - 1)
         IN  shorter \cup
             {Append(l, Item(f, FileName(f), FALSE, t)) :
                 l \in {x \in shorter : Len(x) = n - 1},
                 f \in FileIds, t \in 1..MaxTime}

DistinctIds(l) == \A i, j \in 1..Len(l) : l[i].id = l[j].id => i = j

Leaves == {l \in Listings(MaxFiles) : DistinctIds(l)}

DefaultLeaf == <<Item("f1", FileName("f1"), FALSE, 1)>>

\* A listing whose only file lacks required columns.
DriftedLeaf == <<Item("f4", FileName("f4"), FALSE, 1)>>

\* A listing whose only file spells the spacing column in two ways.
MixedLeaf == <<Item("f5", FileName("f5"), FALSE, 1)>>

\* SP_FOLDER_PATH values.
FolderPaths ==
    {GARDEN \o <<SLASH>> \o EXPORTS,
     <<SLASH>> \o GARDEN \o <<SLASH>> \o EXPORTS \o <<SLASH>>,
     GARDEN,
     Str("Other") \o <<SLASH>> \o EXPORTS}

\* SP_DRIVE_ID values: unset to empty, the built-in default, another id.
DriveIds == {"", DEFAULT_DRIVE, "drive-7"}

\* What GET /sites/{site}/drives may list.
DriveLists == {<<>>, <<"drive-1", "drive-2">>}

RECURSIVE LStripSlash(_)
LStripSlash(s) == IF s # <<>> /\ Head(s) = SLASH THEN LStripSlash(Tail(s)) ELSE s

RECURSIVE RStripSlash(_)
RStripSlash(s) ==
    IF s # <<>> /\ s[Len(s)] = SLASH THEN RStripSlash(SubSeq(s, 1, Len(s) - 1)) ELSE s

\* folder.strip('/').split('/')
path_segments(folder) == StrSplit(RStripSlash(LStripSlash(folder)), SLASH)

AllItems(t) == UNION {Range(t[k]) : k \in DOMAIN t}

ParentOf(t, id) == CHOOSE k \in DOMAIN t : \E i \in 1..Len(t[k]) : t[k][i].id = id

RECURSIVE NamePath(_, _)
NamePath(t, id) ==
    IF id = "root" THEN <<>>
    ELSE LET it == CHOOSE x \in AllItems(t) : x.id = id
         IN  Append(NamePath(t, ParentOf(t, id)), it.name)

\* The folders the store's path addressing (root:{path}:/children) resolves
\* the segments to: those whose names from the root down are the segments.
PathTargets(t, segs) ==
    {it.id : it \in {x \in AllItems(t) : x.folder /\ NamePath(t, x.id) = segs}}

\* -------------------------------------------------------- CSV file inputs

H1 ==
    <<TASK_ID, Str("Task Type"), Str("Start Date"), Str("Planting"),
      Str("Seeds Needed"), Str("Location"), Str("In-row Spacing")>>

\* A header with a padded sentinel cell, another spelling of Task Type, no
\* spacing column and trailing empty cells.
H2 ==
    <<<<SP, "Task Id", SP>>, Str("TASK TYPE"), Str("Start Date"), Str("Planting"),
      Str("Seeds Needed"), Str("Location"), Empty, Empty>>

\* A header without the other required columns.
H3 == <<TASK_ID, Str("Task Type")>>

R1 ==
    <<Str("T1"), Str("Container Sow"), Str("03/14/2024"),
      <<"Beans">> \o SEP \o <<"Dragon">> \o SEP \o <<"Plugs">>, <<"1", COMMA, "234">>,
      Str("Bed 1"), Str("12")>>

R2 ==
    <<Str("T2"), <<SP, "TRANSPLANT", SP>>, Str("not a date"), Str("Kale"),
      Str("40"), <<SP, "Bed 2">>, Empty>>

R3 ==
    <<Str("T3"), Str("Precision Sow"), Str("2024-03-14"), Empty, Empty,
      Str("Bed 1"), Str("6")>>

R4 ==
    <<Str("T4"), Str("Foo"), Str("12/01/2024"), Str("Leek"), Str("5"),
      Str("Bed 3"), Str("4")>>

\* A footer: no Task Id, fewer cells than the header.
R5 == <<Empty, Str("Total")>>

\* A blank terminator row: a Task Id of white space only.
R6 ==
    <<Str(SP), Str("Container Sow"), Str("03/14/2024"), Str("Kale"), Str("1"),
      Str("Bed 1"), Str("2")>>

\* Fewer cells than the header.
R7 == <<Str("T1"), Str("Transplant")>>

\* More cells than the header.
R8 ==
    <<Str("T5"), Str("CONTAINER SOW"), Str("14 Mar 2024"), <<"Pea">> \o SEP,
      Str("7"), Str("Bed 2"), Str("3"), Str("x"), Str("y")>>

\* A section title line.
R9 == <<Str("Transplant tasks")>>

\* A header with another spelling of the spacing column.
H4 ==
    <<TASK_ID, Str("Task Type"), Str("Start Date"), Str("Planting"),
      Str("Seeds Needed"), Str("Location"), Str("In Row Spacing")>>

R10 ==
    <<Str("T6"), Str("Transplant"), Str("12/01/2024"), <<"Chard">> \o SEP \o <<"Ruby">>,
      Str("8"), Str("Bed 4"), Str("9")>>

RowPool == {<<>>, H1, H2, H3, R1, R2, R3, R4, R5, R6, R7, R8, R9}

\* Files of two sections, each with its own header line and one row.
SectionHeaders == {H1, H2, H3, H4}
SectionRows == {R1, R2, R3, R7, R8, R10}
TwoSectionFiles ==
    {<<ha, ra, hb, rb>> : ha \in SectionHeaders, hb \in SectionHeaders,
                          ra \in SectionRows, rb \in SectionRows}

RECURSIVE SeqsUpTo(_, _)
SeqsUpTo(S, n) ==
    IF n = 0 THEN {<<>>}
    ELSE LET shorter == SeqsUpTo(S, n - 1)
         IN  shorter \cup {Append(q, x) : q \in {y \in shorter : Len(y) = n - 1}, x \in S}

\* The CSV files of the parsing stages: at most MaxRows physical rows.
CsvFiles == SeqsUpTo(RowPool, MaxRows)

\* The content of each file of the store.
FileContent(id) ==
    CASE id = "f1" -> <<R9, H1, R1, R2, R3, R5>>
      [] id = "f2" -> <<R9, H1, R5>>
      [] id = "f4" -> <<H3, R7>>
      [] id = "f5" -> <<H1, R3, H4, R10>>
      [] OTHER -> <<H1, R4>>

\* ------------------------------------------------------------------ state

VARIABLES
    tree,               \* the drive's listings (the remote store)
    cfg_folder,         \* SP_FOLDER_PATH
    cfg_drive,          \* SP_DRIVE_ID
    drive_list,         \* what the site's drives request lists
    runs,               \* runs of main started by this process
    tempfiles,          \* files made by tempfile.mkstemp that still exist
    store,              \* the two Supabase tables
    pc,                 \* where the run of main is
    error,              \* the exception that ended the run, "" if none
    drive_id,           \* list_csv_files' drive_id
    reqs,               \* the HTTP requests of the run, in order
    current_items,      \* the segment walk's current listing
    current_folder_id,  \* the segment walk's current folder, "" for None
    seg,                \* index of the segment the walk is at
    items,              \* resp.json()["value"] of the resolved listing
    latest,             \* fetch_latest_csv's latest: <<>> or <<item>>
    csv_path,           \* <<>> for None, else <<rows of the temp file>>
    raw,                \* read_tend_multisection_csv's DataFrame
    norm,               \* transform's result
    upsert_calls,       \* the calls of upsert_table of the run, in order
    prev,               \* how the run before this one ended
    server,             \* the webhook server: "down", "up" or "import_error"
    posts,              \* POSTs sent to /graph/webhook
    acks,               \* {"status": "ok"} responses returned
    pending,            \* background tasks added and not yet started
    triggered           \* runs started by a background task

envVars == <<tree, cfg_folder, cfg_drive, drive_list>>
walkVars == <<current_items, current_folder_id, seg>>
dataVars == <<raw, norm>>
srvVars == <<server, posts, acks, pending, triggered>>
vars ==
    <<tree, cfg_folder, cfg_drive, drive_list, runs, tempfiles, store, pc, error,
      drive_id, reqs, current_items, current_folder_id, seg, items, latest,
      csv_path, raw, norm, upsert_calls, prev, server, posts, acks, pending,
      triggered>>

NoRaw == DataFrame(<<>>)
NoNorm == [error |-> "", missing |-> {}, available |-> {}, rows |-> <<>>]
NoStore == [gh |-> {}, row |-> {}]
NoPrev == [pc |-> "", norm |-> NoNorm, store |-> NoStore]

\* The server is not started and nothing was posted.
ServerDown ==
    /\ server = "down"
    /\ posts = 0
    /\ acks = 0
    /\ pending = 0
    /\ triggered = 0

Req(op, drive, path, id, ok) ==
    [op |-> op, drive |-> drive, path |-> path, id |-> id, ok |-> ok]

\* The state of a run of main before its first statement.
RunStart ==
    /\ pc = "start"
    /\ error = ""
    /\ drive_id = cfg_drive
    /\ reqs = <<>>
    /\ current_items = <<>>
    /\ current_folder_id = ""
    /\ seg = 0
    /\ items = <<>>
    /\ latest = <<>>
    /\ csv_path = <<>>
    /\ raw = NoRaw
    /\ norm = NoNorm
    /\ upsert_calls = <<>>

\* One process, nothing run yet, over one store and one configuration: the
\* folder structure varies under the default listing, the listing of the
\* target folder varies under the default structure, and so does the drive.
Init ==
    /\ \/ /\ \E gk \in Kinds, ek \in Kinds, leaf \in {DefaultLeaf, DriftedLeaf, MixedLeaf} :
               tree = Tree(gk, ek, leaf)
          /\ cfg_folder \in FolderPaths
          /\ cfg_drive = "drive-7"
          /\ drive_list = <<>>
       \/ /\ \E leaf \in Leaves : tree = Tree("folder", "folder", leaf)
          /\ cfg_folder = GARDEN \o <<SLASH>> \o EXPORTS
          /\ cfg_drive = "drive-7"
          /\ drive_list = <<>>
       \/ /\ tree = Tree("folder", "folder", DefaultLeaf)
          /\ cfg_folder = GARDEN \o <<SLASH>> \o EXPORTS
          /\ cfg_drive \in DriveIds
          /\ drive_list \in DriveLists
    /\ runs = 1
    /\ tempfiles = 0
    /\ store = NoStore
    /\ prev = NoPrev
    /\ ServerDown
    /\ RunStart

\* ------------------------------------------------------------ the actions

\* An error that is logged and not raised.
Swallow(err) == pc' = "done" /\ error' = ""

Raise(err) == pc' = "failed" /\ error' = err

\* get_graph_token (main.py 57-69), then list_csv_files up to line 99.
GetToken ==
    /\ pc = "start"
    /\ \E ok \in BOOLEAN :
         /\ reqs' = Append(reqs, Req("token", "", <<>>, "", ok))
         /\ IF ~ok THEN Raise("HTTPError")
            ELSE /\ pc' = IF drive_id = "" \/ drive_id = DEFAULT_DRIVE
                          THEN "probe_site" ELSE "direct"
                 /\ error' = error
    /\ UNCHANGED <<envVars, srvVars, prev, runs, tempfiles, store, drive_id, walkVars, items,
                   latest, csv_path, dataVars, upsert_calls>>

\* main.py 101-120, the site request.
ProbeSite ==
    /\ pc = "probe_site"
    /\ \E ok \in BOOLEAN :
         /\ reqs' = Append(reqs, Req("site", "", <<>>, "", ok))
         /\ pc' = IF ok THEN "probe_drives" ELSE "direct"
    /\ UNCHANGED <<envVars, srvVars, prev, runs, tempfiles, store, error, drive_id, walkVars,
                   items, latest, csv_path, dataVars, upsert_calls>>

\* A drives request whose answer is not used.
ProbeDrivesUnused ==
    /\ pc = "probe_drives"
    /\ \E ok \in BOOLEAN : reqs' = Append(reqs, Req("drives", "", <<>>, "", ok))
    /\ pc' = "direct"
    /\ UNCHANGED <<envVars, srvVars, prev, runs, tempfiles, store, error, drive_id,
                   walkVars, items, latest, csv_path, dataVars, upsert_calls>>

\* main.py 107-118, the drives request.
ProbeDrives ==
    /\ pc = "probe_drives"
    /\ \E ok \in BOOLEAN :
         /\ reqs' = Append(reqs, Req("drives", "", <<>>, "", ok))
         /\ drive_id' = IF ok /\ drive_list # <<>> THEN drive_list[1] ELSE drive_id
    /\ pc' = "direct"
    /\ UNCHANGED <<envVars, srvVars, prev, runs, tempfiles, store, error, walkVars, items,
                   latest, csv_path, dataVars, upsert_calls>>

\* A resolver that walks the segments whatever the path lookup answered.
AlwaysWalk(ok) == "root"

\* main.py 139: `if not resp.ok` sends the run to the segment walk.
AfterDirect(ok) == IF ok THEN "select" ELSE "root"

\* main.py 124-143: the path lookup; the store can answer it with success
\* only when the path names a folder.
DirectLookup ==
    /\ pc = "direct"
    /\ LET segs == path_segments(cfg_folder)
           targets == PathTargets(tree, segs)
       IN  \E ok \in BOOLEAN :
             /\ ok => targets # {}
             /\ reqs' = Append(reqs, Req("path_children", drive_id, segs, "", ok))
             /\ IF ok
                THEN /\ items' = tree[CHOOSE f \in targets : TRUE]
                     /\ pc' = AfterDirect(ok)
                ELSE /\ items' = items
                     /\ pc' = AfterDirect(ok)
    /\ UNCHANGED <<envVars, srvVars, prev, runs, tempfiles, store, error, drive_id, walkVars,
                   latest, csv_path, dataVars, upsert_calls>>

\* main.py 146-154.
ListRoot ==
    /\ pc = "root"
    /\ \E ok \in BOOLEAN :
         /\ reqs' = Append(reqs, Req("root_children", drive_id, <<>>, "", ok))
         /\ IF ok
            THEN /\ current_items' = tree["root"]
                 /\ current_folder_id' = ""
                 /\ seg' = 1
                 /\ pc' = "walk"
                 /\ error' = error
            ELSE /\ Raise("HTTPError")
                 /\ UNCHANGED walkVars
    /\ UNCHANGED <<envVars, srvVars, prev, runs, tempfiles, store, drive_id, items, latest,
                   csv_path, dataVars, upsert_calls>>

\* A search that takes the first folder of the listing, whatever its name.
RECURSIVE first_folder(_, _)
first_folder(listing, segment) ==
    IF listing = <<>> THEN <<>>
    ELSE IF Head(listing).folder THEN <<Head(listing)>>
    ELSE first_folder(Tail(listing), segment)

\* A search by name alone, which takes a file for a folder.
RECURSIVE found_item(_, _)
found_item(listing, segment) ==
    IF listing = <<>> THEN <<>>
    ELSE IF Head(listing).name = segment THEN <<Head(listing)>>
    ELSE found_item(Tail(listing), segment)

\* main.py 158-162: <<>> for None, else <<the first item of that name that
\* is a folder>>.
RECURSIVE found_folder(_, _)
found_folder(listing, segment) ==
    IF listing = <<>> THEN <<>>
    ELSE IF Head(listing).name = segment /\ Head(listing).folder THEN <<Head(listing)>>
    ELSE found_folder(Tail(listing), segment)

\* One turn of the loop of main.py 156-182.
WalkSegment ==
    /\ pc = "walk"
    /\ LET segs == path_segments(cfg_folder)
           found == found_folder(current_items, segs[seg])
       IN  IF found = <<>>
           THEN /\ Raise("HTTPError: segment not found")
                /\ UNCHANGED <<walkVars, reqs>>
           ELSE IF seg < Len(segs)
           THEN \E ok \in BOOLEAN :
                  /\ reqs' = Append(reqs,
                                Req("item_children", drive_id, <<>>, found[1].id, ok))
                  /\ current_folder_id' = found[1].id
                  /\ IF ok
                     THEN /\ current_items' = tree[found[1].id]
                          /\ seg' = seg + 1
                          /\ pc' = "walk"
                          /\ error' = error
                     ELSE /\ Raise("HTTPError")
                          /\ UNCHANGED <<current_items, seg>>
           ELSE /\ current_folder_id' = found[1].id
                /\ pc' = "final"
                /\ UNCHANGED <<current_items, seg, reqs, error>>
    /\ UNCHANGED <<envVars, srvVars, prev, runs, tempfiles, store, drive_id, items, latest,
                   csv_path, dataVars, upsert_calls>>

\* main.py 185-194.
FinalListing ==
    /\ pc = "final"
    /\ IF current_folder_id = ""
       THEN /\ Raise("HTTPError")
            /\ UNCHANGED <<reqs, items>>
       ELSE \E ok \in BOOLEAN :
              /\ reqs' = Append(reqs,
                            Req("item_children", drive_id, <<>>, current_folder_id, ok))
              /\ IF ok
                 THEN /\ items' = tree[current_folder_id]
                      /\ pc' = "select"
                      /\ error' = error
                 ELSE /\ Raise("HTTPError")
                      /\ items' = items
    /\ UNCHANGED <<envVars, srvVars, prev, runs, tempfiles, store, drive_id, walkVars, latest,
                   csv_path, dataVars, upsert_calls>>

\* A listing that is not filtered by suffix.
all_items(listing) == listing

\* main.py 196: the entries whose lower-cased name ends with ".csv".
RECURSIVE csv_items(_)
csv_items(listing) ==
    IF listing = <<>> THEN <<>>
    ELSE IF StrEndsWith(StrLower(Head(listing).name), ".csv")
         THEN <<Head(listing)>> \o csv_items(Tail(listing))
    ELSE csv_items(Tail(listing))

\* A sort without reverse=True: the oldest entry comes first.
latest_of_ascending(cs) ==
    LET key(i) == dateparser_parse(cs[i].lastModifiedDateTime)
        i == CHOOSE i \in 1..Len(cs) :
                 /\ \A j \in 1..Len(cs) : key(i) <= key(j)
                 /\ \A j \in 1..(i - 1) : key(i) < key(j)
    IN  cs[i]

\* main.py 207-211: sorted(..., reverse=True)[0]; the sort is stable, so of
\* the entries with the greatest instant the first in the listing comes first.
latest_of(cs) ==
    LET key(i) == dateparser_parse(cs[i].lastModifiedDateTime)
        i == CHOOSE i \in 1..Len(cs) :
                 /\ \A j \in 1..Len(cs) : key(j) <= key(i)
                 /\ \A j \in 1..(i - 1) : key(j) < key(i)
    IN  cs[i]

\* fetch_latest_csv from line 203 (and main.py 435-437 when it returns None).
SelectAndDownload ==
    /\ pc = "select"
    /\ LET cs == csv_items(items) IN
       IF cs = <<>>
       THEN /\ pc' = "done"
            /\ UNCHANGED <<error, reqs, latest, csv_path, tempfiles>>
       ELSE LET it == latest_of(cs) IN
            \E ok \in BOOLEAN :
              /\ latest' = <<it>>
              /\ reqs' = Append(reqs, Req("download", it.driveId, <<>>, it.id, ok))
              /\ IF ok
                 THEN /\ tempfiles' = tempfiles + 1
                      /\ csv_path' = <<FileContent(it.id)>>
                      /\ pc' = "parse"
                      /\ error' = error
                 ELSE /\ Raise("HTTPError")
                      /\ UNCHANGED <<tempfiles, csv_path>>
    /\ UNCHANGED <<envVars, srvVars, prev, runs, store, drive_id, walkVars, items, dataVars,
                   upsert_calls>>

\* main.py 440-451.
Parse ==
    /\ pc = "parse"
    /\ raw' = read_tend_multisection_csv(csv_path[1])
    /\ pc' = IF DfEmpty(raw') THEN "done" ELSE "transform"
    /\ UNCHANGED <<envVars, srvVars, prev, runs, tempfiles, store, error, drive_id, reqs, walkVars,
                   items, latest, csv_path, norm, upsert_calls>>

\* main.py 453.
Transform ==
    /\ pc = "transform"
    /\ \E order \in OptionalOrders : norm' = transform(raw, order)
    /\ IF norm'.error # "" THEN Raise(norm'.error)
       ELSE pc' = "upsert_gh" /\ error' = error
    /\ UNCHANGED <<envVars, srvVars, prev, runs, tempfiles, store, drive_id, reqs, walkVars, items,
                   latest, csv_path, raw, upsert_calls>>

\* The table after the upsert of rows on the conflict column Tend ID.
Upserted(table, rows) ==
    LET keys == {rows[i]["Tend ID"] : i \in 1..Len(rows)}
        lastOf(k) == rows[CHOOSE i \in 1..Len(rows) :
                            /\ rows[i]["Tend ID"] = k
                            /\ \A j \in (i + 1)..Len(rows) : rows[j]["Tend ID"] # k]
    IN  {r \in table : r["Tend ID"] \notin keys} \cup {lastOf(k) : k \in keys}

\* A conflict column other than the identity key.
CallOnDate(table, rows, sent, ok) ==
    [table |-> table, rows |-> rows, conflict_col |-> "Date", sent |-> sent,
     ok |-> ok]

Call(table, rows, sent, ok) ==
    [table |-> table, rows |-> rows, conflict_col |-> "Tend ID", sent |-> sent,
     ok |-> ok]

\* upsert_table (main.py 421-426) on one of the two tables: no request for no
\* rows, else one request that the store may refuse.
upsert_table(table, rows, next) ==
    IF rows = <<>>
    THEN /\ upsert_calls' = Append(upsert_calls, Call(table, rows, FALSE, TRUE))
         /\ pc' = next
         /\ UNCHANGED <<store, error>>
    ELSE \E ok \in BOOLEAN :
           /\ upsert_calls' = Append(upsert_calls, Call(table, rows, TRUE, ok))
           /\ IF ok
              THEN /\ store' = [store EXCEPT ![table] = Upserted(store[table], rows)]
                   /\ pc' = next
                   /\ error' = error
              ELSE /\ Raise("APIError")
                   /\ store' = store

\* main.py 455-462.
UpsertGh ==
    /\ pc = "upsert_gh"
    /\ upsert_table("gh", gh_rows(norm.rows), "upsert_row")
    /\ UNCHANGED <<envVars, srvVars, prev, runs, tempfiles, drive_id, reqs, walkVars, items, latest,
                   csv_path, dataVars>>

\* main.py 464-490.
UpsertRow ==
    /\ pc = "upsert_row"
    /\ upsert_table("row", row_payload(norm.rows), "done")
    /\ UNCHANGED <<envVars, srvVars, prev, runs, tempfiles, drive_id, reqs, walkVars, items, latest,
                   csv_path, dataVars>>

\* The names main.py defines at module level.
MainNames ==
    {"GRAPH_BASE", "get_graph_token", "list_csv_files", "fetch_latest_csv",
     "parse_date", "to_number", "split_planting", "clean_headers", "row_to_dict",
     "read_tend_multisection_csv", "transform", "upsert_table", "main"}

\* An import that finds every name.
ImportFinds(name) == TRUE

\* `from main import name`: an ImportError unless main.py defines the name.
ImportFromMain(name) == name \in MainNames

\* The start of the webhook server: the import of server.py, whose line 6 is
\* `from main import run_sync`.
ImportServer ==
    /\ server = "down"
    /\ server' = IF ImportFromMain("run_sync") THEN "up" ELSE "import_error"
    /\ UNCHANGED <<envVars, posts, acks, pending, triggered, prev, runs, tempfiles,
                   store, pc, error, drive_id, reqs, walkVars, items, latest,
                   csv_path, dataVars, upsert_calls>>

\* One POST to /graph/webhook (server.py 20-33): a server that is up adds
\* one background task and acknowledges; no other server answers.
PostWebhook ==
    /\ server # "down"
    /\ posts < MaxPosts
    /\ posts' = posts + 1
    /\ IF server = "up"
       THEN pending' = pending + 1 /\ acks' = acks + 1
       ELSE UNCHANGED <<pending, acks>>
    /\ UNCHANGED <<envVars, server, triggered, prev, runs, tempfiles, store, pc,
                   error, drive_id, reqs, walkVars, items, latest, csv_path,
                   dataVars, upsert_calls>>

\* The next run of main over the same folder and store: the script is run
\* again (main.py 494-495), or a background task of the server starts
\* (server.py 31).
StartRun ==
    /\ pc \in {"done", "failed"}
    /\ runs < MaxRuns
    /\ runs' = runs + 1
    /\ \/ UNCHANGED <<pending, triggered>>
       \/ /\ pending > 0
          /\ pending' = pending - 1
          /\ triggered' = triggered + 1
    /\ prev' = [pc |-> pc, norm |-> norm, store |-> store]
    /\ pc' = "start"
    /\ error' = ""
    /\ drive_id' = cfg_drive
    /\ reqs' = <<>>
    /\ current_items' = <<>>
    /\ current_folder_id' = ""
    /\ seg' = 0
    /\ items' = <<>>
    /\ latest' = <<>>
    /\ csv_path' = <<>>
    /\ raw' = NoRaw
    /\ norm' = NoNorm
    /\ upsert_calls' = <<>>
    /\ UNCHANGED <<envVars, server, posts, acks, tempfiles, store>>

Next ==
    \/ GetToken
    \/ ProbeSite
    \/ ProbeDrives
    \/ DirectLookup
    \/ ListRoot
    \/ WalkSegment
    \/ FinalListing
    \/ SelectAndDownload
    \/ Parse
    \/ Transform
    \/ UpsertGh
    \/ UpsertRow
    \/ StartRun

Spec == Init /\ [][Next]_vars

\* The stages of main after the download, over every CSV file of the bound.
InitCsv ==
    /\ tree = Tree("folder", "folder", DefaultLeaf)
    /\ cfg_folder = GARDEN \o <<SLASH>> \o EXPORTS
    /\ cfg_drive = "drive-7"
    /\ drive_list = <<>>
    /\ runs = MaxRuns
    /\ tempfiles = 1
    /\ store = NoStore
    /\ prev = NoPrev
    /\ ServerDown
    /\ pc = "parse"
    /\ error = ""
    /\ drive_id = cfg_drive
    /\ reqs = <<>>
    /\ current_items = <<>>
    /\ current_folder_id = ""
    /\ seg = 0
    /\ items = DefaultLeaf
    /\ latest = <<DefaultLeaf[1]>>
    /\ csv_path \in {<<f>> : f \in CsvFiles \cup TwoSectionFiles}
    /\ raw = NoRaw
    /\ norm = NoNorm
    /\ upsert_calls = <<>>

NextCsv ==
    \/ Parse
    \/ Transform
    \/ UpsertGh
    \/ UpsertRow

SpecCsv == InitCsv /\ [][NextCsv]_vars

\* The webhook server beside the script, over the default folder and drive.
InitServer ==
    /\ tree = Tree("folder", "folder", DefaultLeaf)
    /\ cfg_folder = GARDEN \o <<SLASH>> \o EXPORTS
    /\ cfg_drive = DEFAULT_DRIVE
    /\ drive_list = <<"drive-1", "drive-2">>
    /\ runs = 1
    /\ tempfiles = 0
    /\ store = NoStore
    /\ prev = NoPrev
    /\ ServerDown
    /\ RunStart

NextServer ==
    \/ ImportServer
    \/ PostWebhook
    \/ Next

SpecServer == InitServer /\ [][NextServer]_vars

\* ----------------------------------------------------------------- claims

\* The elements of s at the indices in I, in their order in s.
RECURSIVE Pick(_, _, _)
Pick(s, I, n) ==
    IF n = 0 THEN <<>>
    ELSE Pick(s, I, n - 1) \o (IF n \in I THEN <<s[n]>> ELSE <<>>)

IsHeaderRow(row) == row # <<>> /\ StrStrip(row[1]) = TASK_ID

HasHeaderBefore(rows, i) == \E j \in 1..(i - 1) : IsHeaderRow(rows[j])

\* The trimmed names of the most recent header row before row i, without
\* the trailing unnamed columns.
HeaderNamesAt(rows, i) ==
    LET j == CHOOSE j \in 1..(i - 1) :
                 /\ IsHeaderRow(rows[j])
                 /\ \A k \in (j + 1)..(i - 1) : ~IsHeaderRow(rows[k])
        named == {k \in 1..Len(rows[j]) : StrStrip(rows[j][k]) # Empty}
        width == IF named = {} THEN 0 ELSE CHOOSE k \in named : \A m \in named : m <= k
    IN  [k \in 1..width |-> StrStrip(rows[j][k])]

\* The cell of row i in the column called name ("" past the row's end).
CellAt(rows, i, name) ==
    LET h == HeaderNamesAt(rows, i)
        k == CHOOSE k \in 1..Len(h) : h[k] = name /\ \A m \in (k + 1)..Len(h) : h[m] # name
    IN  IF k <= Len(rows[i]) THEN rows[i][k] ELSE Empty

DataRowIndices(rows) ==
    {i \in 1..Len(rows) :
        /\ rows[i] # <<>>
        /\ ~IsHeaderRow(rows[i])
        /\ HasHeaderBefore(rows, i)
        /\ CellAt(rows, i, TASK_ID) # Empty}

ExpectedRecord(rows, i) ==
    LET h == HeaderNamesAt(rows, i)
    IN  [keys |-> Dedupe(h), val |-> [name \in Range(h) |-> CellAt(rows, i, name)]]

ExpectedRecords(rows) ==
    LET idx == Pick([i \in 1..Len(rows) |-> i], DataRowIndices(rows), Len(rows))
    IN  [k \in 1..Len(idx) |-> ExpectedRecord(rows, idx[k])]

Parsed == pc \in {"transform", "upsert_gh", "upsert_row", "done", "failed"}

\* C1: once the file is read, the parsed table holds, in input order, exactly
\* one record for each non-empty row that follows a 'Task Id' header row, is
\* no header row itself and has a non-empty Task Id cell, keyed by the names
\* of the most recent header row; nothing else is emitted.
C1_ReaderEmitsDataRows ==
    Parsed => raw = DataFrame(ExpectedRecords(csv_path[1]))

\* A file with two differently named headers and a data row after the second.
C1_Witness ==
    /\ Parsed
    /\ Len(csv_path[1]) = 3
    /\ IsHeaderRow(csv_path[1][1])
    /\ IsHeaderRow(csv_path[1][2])
    /\ HeaderNamesAt(csv_path[1], 2) # HeaderNamesAt(csv_path[1], 3)
    /\ Len(raw.rows) = 1

\* The discriminant of a normalized record, trimmed and lower-cased by hand.
Discriminant(rec) ==
    LET t == rec["task_type"]
        cut == IF t # <<>> /\ t # None /\ Head(t) = SP THEN Tail(t) ELSE t
    IN  CASE cut \in {Str("Container Sow"), Str("CONTAINER SOW"), Str("container sow")}
               -> "container sow"
          [] cut \in {Str("Transplant"), Str("TRANSPLANT"), Str("transplant")}
               -> "transplant"
          [] cut \in {Str("Precision Sow"), Str("precision sow")} -> "precision sow"
          [] OTHER -> "other"

GroupA == {i \in 1..Len(norm.rows) : Discriminant(norm.rows[i]) = "container sow"}

GroupB ==
    {i \in 1..Len(norm.rows) :
        Discriminant(norm.rows[i]) \in {"transplant", "precision sow"}}

CallsOf(table) ==
    {k \in 1..Len(upsert_calls) : upsert_calls[k].table = table}

\* C2: the rows handed to upsert_table for gh_planting_log are exactly the
\* normalized records whose discriminant is 'container sow', those for
\* row_planting_log exactly the 'transplant' and 'precision sow' records,
\* labelled 'Transplant' and 'Direct'; no record is in both groups and a
\* record with another discriminant is in neither.
C2_Routing ==
    /\ GroupA \cap GroupB = {}
    /\ \A k \in CallsOf("gh") :
         LET want == Pick(norm.rows, GroupA, Len(norm.rows))
             got == upsert_calls[k].rows
         IN  /\ Len(got) = Len(want)
             /\ \A j \in 1..Len(got) :
                  \A c \in {"Tend ID", "Date", "Plant Name", "Variety", "Quantity"} :
                     got[j][c] = want[j][c]
    /\ \A k \in CallsOf("row") :
         LET want == Pick(norm.rows, GroupB, Len(norm.rows))
             got == upsert_calls[k].rows
         IN  /\ Len(got) = Len(want)
             /\ \A j \in 1..Len(got) :
                  /\ \A c \in {"Tend ID", "Date", "Plant Name", "Variety", "Location",
                               "Spacing"} : got[j][c] = want[j][c]
                  /\ got[j]["Direct/Transplant"] =
                        IF Discriminant(want[j]) = "transplant"
                        THEN Str("Transplant") ELSE Str("Direct")

\* Both groups non-empty, from discriminants spelled in other letter case.
C2_Witness ==
    /\ pc = "done"
    /\ \E k \in CallsOf("gh") : upsert_calls[k].rows # <<>>
    /\ \E k \in CallsOf("row") : upsert_calls[k].rows # <<>>
    /\ \E i \in GroupA \cup GroupB :
         norm.rows[i]["task_type"] \in {Str("CONTAINER SOW"), Str("TRANSPLANT")}

\* C3: no record handed to upsert_table holds the discriminant column; each
\* has exactly the columns of its table's projection.
C3_NoDiscriminantPersisted ==
    \A k \in 1..Len(upsert_calls) :
      \A j \in 1..Len(upsert_calls[k].rows) :
        LET rec == upsert_calls[k].rows[j] IN
        /\ "task_type" \notin DOMAIN rec
        /\ "taskType" \notin DOMAIN rec
        /\ DOMAIN rec =
             IF upsert_calls[k].table = "gh"
             THEN {"Tend ID", "Date", "Plant Name", "Variety", "Quantity"}
             ELSE {"Tend ID", "Date", "Plant Name", "Variety", "Location", "Spacing",
                   "Direct/Transplant"}

\* Both tables were handed records of a run whose records carry task_type.
C3_Witness ==
    /\ Len(upsert_calls) = 2
    /\ upsert_calls[1].rows # <<>>
    /\ upsert_calls[2].rows # <<>>
    /\ \A i \in 1..Len(norm.rows) : norm.rows[i]["task_type"] # None

Transformed == pc \in {"upsert_gh", "upsert_row", "done"} \/ error \in {"ValueError", "APIError"}

\* The input rows of transform whose Task Id is not blank.
IdentifiedRows ==
    {i \in 1..Len(raw.rows) :
        \E k \in 1..Len(raw.rows[i][TASK_ID]) : raw.rows[i][TASK_ID][k] # SP}

AllRequiredPresent ==
    \A low \in {"task id", "task type", "start date", "planting", "seeds needed",
                "location"} :
       \E c \in Range(raw.columns) : StrLower(c) = Str(low)

\* C4: every record transform returns has a non-empty Tend ID; a row whose
\* Task Id is empty or blank is dropped without an error, and every other
\* row gives exactly one record, in order.
C4_TransformDropsBlankIds ==
    Transformed =>
      /\ \A j \in 1..Len(norm.rows) :
           norm.rows[j]["Tend ID"] # None /\ norm.rows[j]["Tend ID"] # Empty
      /\ AllRequiredPresent =>
           /\ norm.error = ""
           /\ Len(norm.rows) = Cardinality(IdentifiedRows)
           /\ LET kept == Pick(raw.rows, IdentifiedRows, Len(raw.rows))
              IN  \A j \in 1..Len(norm.rows) :
                    \E k \in 1..Len(kept[j][TASK_ID]) :
                       /\ kept[j][TASK_ID][k] # SP
                       /\ norm.rows[j]["Tend ID"] = <<kept[j][TASK_ID][k]>>

\* A row with a blank Task Id was dropped and another row was kept.
C4_Witness ==
    /\ Transformed
    /\ norm.error = ""
    /\ Len(norm.rows) >= 1
    /\ Cardinality(IdentifiedRows) < Len(raw.rows)

\* A name with the accepted suffix, in any letter case.
HasCsvSuffix(name) == name # <<>> /\ name[Len(name)] \in {".csv", ".CSV", ".Csv"}

CsvEntries(listing) == {i \in 1..Len(listing) : HasCsvSuffix(listing[i].name)}

\* The instant of an entry: the place of its timestamp among the store's.
Instant(it) == CHOOSE t \in 1..Len(TimeStrings) : TimeStrings[t] = it.lastModifiedDateTime

Downloads == {k \in 1..Len(reqs) : reqs[k].op = "download"}

\* C5: when the resolved listing has an entry with the .csv suffix, the file
\* fetch_latest_csv downloads is one of those entries and none of them is
\* newer; an entry without the suffix is never the one selected.
C5_LatestCsvSelected ==
    /\ latest # <<>> =>
         /\ \E i \in CsvEntries(items) : items[i] = latest[1]
         /\ \A i \in CsvEntries(items) : Instant(items[i]) <= Instant(latest[1])
         /\ \A k \in Downloads : reqs[k].id = latest[1].id
         /\ Cardinality(Downloads) = 1
    /\ latest = <<>> => Downloads = {}
    /\ (pc \in {"parse", "transform", "upsert_gh", "upsert_row"}) => latest # <<>>

\* Two .csv entries of different age, the older one listed first, and a
\* newer entry without the suffix.
C5_Witness ==
    /\ latest # <<>>
    /\ \E i, j \in CsvEntries(items) :
         i < j /\ Instant(items[i]) < Instant(items[j]) /\ items[j] = latest[1]
    /\ \E i \in 1..Len(items) :
         ~HasCsvSuffix(items[i].name) /\ Instant(items[i]) > Instant(latest[1])

Segments == path_segments(cfg_folder)

FellBack == \E k \in 1..Len(reqs) : reqs[k].op = "root_children"

Resolved == pc \in {"select", "parse", "transform", "upsert_gh", "upsert_row", "done"}

\* C6: when the configured path names a chain of folders from the root and
\* the path lookup failed, the segment walk does not stop at a segment, and
\* the listing it ends with is the listing of the folder the path names.
C6_WalkReachesSameLeaf ==
    (FellBack /\ PathTargets(tree, Segments) # {}) =>
       /\ error # "HTTPError: segment not found"
       /\ Resolved => \E f \in PathTargets(tree, Segments) : items = tree[f]

\* A walk over two segments that ended with a listing.
C6_Witness ==
    /\ FellBack
    /\ pc = "select"
    /\ Len(Segments) = 2
    /\ items # <<>>

ListingOps == {"path_children", "root_children", "item_children"}

ListingReqs == {k \in 1..Len(reqs) : reqs[k].op \in ListingOps}

ItemReqs == {k \in 1..Len(reqs) : reqs[k].op = "item_children"}

\* C7: of the listing requests of a run the path lookup is the first; after
\* its success no root or by-identifier listing is requested; after its
\* failure the next request lists the drive root, and the by-identifier
\* requests that follow go down the path one segment at a time, left to right.
C7_DirectFirstThenWalk ==
    /\ \A k \in ListingReqs :
         (reqs[k].op = "path_children") <=> (\A m \in ListingReqs : k <= m)
    /\ \A k \in ListingReqs :
         (reqs[k].op = "path_children" /\ reqs[k].ok) => ListingReqs = {k}
    /\ \A k \in ListingReqs :
         (reqs[k].op = "path_children" /\ ~reqs[k].ok /\ k < Len(reqs)) =>
             reqs[k + 1].op = "root_children"
    /\ \A k \in ListingReqs :
         (reqs[k].op = "root_children") => Cardinality({m \in ListingReqs : m < k}) = 1
    /\ \A k \in ItemReqs :
         LET n == Cardinality({m \in ItemReqs : m <= k})
         IN  /\ n <= Len(Segments)
             /\ NamePath(tree, reqs[k].id) = SubSeq(Segments, 1, n)
    /\ (pc = "direct") => ListingReqs = {}
    /\ (pc = "root") => \E k \in ListingReqs : ~reqs[k].ok /\ k = Len(reqs)

\* A failed path lookup followed by the root listing and two descents.
C7_Witness ==
    /\ pc = "select"
    /\ Cardinality(ListingReqs) = 4
    /\ Cardinality(ItemReqs) = 2

NoFolderNamed(listing, name) ==
    ~\E i \in 1..Len(listing) : listing[i].name = name /\ listing[i].folder

\* C8: in the segment walk, when the current listing has no folder named as
\* the current segment, the run fails there: no request follows, nothing is
\* downloaded, no temporary file is made and nothing is persisted.
C8_MissingSegmentFails ==
    /\ [][(pc = "walk" /\ NoFolderNamed(current_items, Segments[seg])) =>
            /\ pc' = "failed"
            /\ error' # ""
            /\ reqs' = reqs
            /\ Cardinality(ItemReqs) = seg - 1
            /\ Downloads = {}
            /\ tempfiles' = tempfiles
            /\ csv_path' = <<>>
            /\ upsert_calls' = <<>>
            /\ store' = store]_vars
    /\ [][pc = "failed" => (pc' = "start" /\ runs' = runs + 1 /\ store' = store)]_vars

\* The walk stopped at a segment whose name only a file has.
C8_Witness ==
    /\ error = "HTTPError: segment not found"
    /\ \E i \in 1..Len(current_items) :
         current_items[i].name = Segments[seg] /\ ~current_items[i].folder

\* C9: when the resolved listing has no entry with the .csv suffix, the run
\* ends without an error and without effect: no download request, no
\* temporary file, no persistence call.
C9_NoCsvEndsCleanly ==
    /\ [][(pc = "select" /\ CsvEntries(items) = {}) =>
            /\ pc' = "done"
            /\ error' = ""
            /\ reqs' = reqs
            /\ Downloads = {}
            /\ tempfiles' = tempfiles
            /\ csv_path' = <<>>
            /\ upsert_calls' = <<>>
            /\ store' = store]_vars
    /\ [][pc = "done" => (pc' = "start" /\ runs' = runs + 1 /\ store' = store)]_vars

\* A run that ended at a listing with entries, none of them a .csv.
C9_Witness ==
    /\ pc = "done"
    /\ items # <<>>
    /\ CsvEntries(items) = {}
    /\ csv_path = <<>>

\* C10: when a run has ended, on whatever path, no temporary file made by
\* the pipeline remains.
C10_TempFileRemoved == (pc \in {"done", "failed"}) => tempfiles = 0

\* An upsert_table call for the table returned without an error.
Performed(table) ==
    \E k \in 1..Len(upsert_calls) : upsert_calls[k].table = table /\ upsert_calls[k].ok

RunEnded == pc \in {"done", "failed"}

\* C11: when a run has ended, the upserts of both groups have been performed
\* or none has; no fatal error leaves exactly one of the two persisted.
C11_AllOrNothing == RunEnded => (Performed("gh") <=> Performed("row"))

\* The required columns no column of the parsed file matches, letter case
\* aside.
MissingColumns ==
    {req \in required_base :
        \A c \in Range(raw.columns) : StrLower(c) # StrLower(Str(req))}

\* C12: when a required column has no match, letter case aside, among the
\* columns of the whole file, transform fails with one ValueError that names
\* every missing required column and lists the columns present; no row is
\* processed and upsert_table is never called.
C12_MissingColumnsFail ==
    [][(pc = "transform" /\ MissingColumns # {}) =>
          /\ pc' = "failed"
          /\ error' = "ValueError"
          /\ norm'.missing = MissingColumns
          /\ norm'.available = Range(raw.columns)
          /\ norm'.rows = <<>>
          /\ upsert_calls' = <<>>
          /\ store' = store]_vars
    /\ [][(pc = "failed" /\ error = "ValueError") =>
             (upsert_calls' = upsert_calls /\ store' = store)]_vars

\* A file whose rows lack four required columns was refused.
C12_Witness ==
    /\ pc = "failed"
    /\ error = "ValueError"
    /\ raw.rows # <<>>
    /\ norm.missing = {"Start Date", "Planting", "Seeds Needed", "Location"}
    /\ upsert_calls = <<>>

\* The rows of raw that transform keeps, in order.
KeptRows == Pick(raw.rows, IdentifiedRows, Len(raw.rows))

\* The columns of raw whose name is a spelling of the spacing column.
SpacingColumns ==
    {c \in Range(raw.columns) : \E o \in optional : StrLower(c) = StrLower(Str(o))}

\* The row's own section header has no spacing column: the row has no cell
\* under any spelling of it (none at all when no header of the file has one).
NoSpacingAvailable(r) == \A c \in SpacingColumns : r[c] = NaN

\* C13: every row with no spacing column available to it (no header of the
\* file matches an accepted spelling, or the row's own section header has
\* none) is emitted with Spacing None, and the run is not aborted.
C13_NoSpacingGivesNone ==
    (Transformed /\ AllRequiredPresent) =>
      /\ norm.error = ""
      /\ Len(norm.rows) = Len(KeptRows)
      /\ \A j \in 1..Len(norm.rows) :
           NoSpacingAvailable(KeptRows[j]) => norm.rows[j]["Spacing"] = None

\* The requests of the run that got a non-success response.
FailedReqs == {k \in 1..Len(reqs) : ~reqs[k].ok}

\* The upsert_table calls of the run that the store refused.
FailedCalls == {k \in 1..Len(upsert_calls) : ~upsert_calls[k].ok}

SameCall(a, b) == a.op = b.op /\ a.drive = b.drive /\ a.path = b.path /\ a.id = b.id

\* The run made no request and no upsert call after request k.
LastRemoteCall(k) == k = Len(reqs) /\ upsert_calls = <<>>

\* The claim as stated: every failed request other than the direct path
\* lookup ends the run in an error, with nothing after it.
C14_EveryFailureFatal ==
    \A k \in FailedReqs :
       reqs[k].op # "path_children" => (pc = "failed" /\ LastRemoteCall(k))

\* The two probes before the lookup (main.py 99-120).
ProbeOps == {"site", "drives"}

\* C14: every non-success response from the remote store or the token
\* endpoint, other than the direct path lookup and the two probes of the
\* site and of its drives, is fatal: the run ends in the error there and the
\* failed call is not made again; a refused upsert is fatal in the same way.
C14_FailureFatalButProbes ==
    /\ \A k \in FailedReqs :
         reqs[k].op \notin ({"path_children"} \cup ProbeOps) =>
            /\ pc = "failed"
            /\ error # ""
            /\ LastRemoteCall(k)
    /\ \A k \in FailedCalls :
         /\ pc = "failed"
         /\ error = "APIError"
         /\ k = Len(upsert_calls)
    /\ \A k \in FailedReqs : \A m \in (k + 1)..Len(reqs) : ~SameCall(reqs[m], reqs[k])

\* A listing of the segment walk failed and ended the run.
C14_Witness ==
    /\ pc = "failed"
    /\ \E k \in FailedReqs : reqs[k].op \in {"root_children", "item_children"}
    /\ \E k \in 1..Len(reqs) : reqs[k].op = "path_children" /\ ~reqs[k].ok

\* C15: every POST to /graph/webhook is acknowledged and triggers exactly
\* one pipeline run, whatever the outcome of that run.
C15_EveryPostTriggersOneRun ==
    /\ acks = posts
    /\ pending + triggered = posts

Tables(calls) == [k \in 1..Len(calls) |-> calls[k].table]

ReachedPersistence == upsert_calls # <<>>

\* The claim as stated: a run that reached persistence and has ended has
\* called upsert_table for group A and then for group B.
C16_BothGroupsCalled ==
    (RunEnded /\ ReachedPersistence) => Tables(upsert_calls) = <<"gh", "row">>

\* C16: a run that reaches persistence calls upsert_table once for group A
\* and then, unless the store refused that request and so ended the run,
\* once for group B, each time with the conflict column 'Tend ID' and the
\* records of the group; for a group with no records no request is sent and
\* no error is raised, and the other group is still processed.
C16_UpsertPerGroup ==
    /\ Tables(upsert_calls) \in {<<>>, <<"gh">>, <<"gh", "row">>}
    /\ \A k \in 1..Len(upsert_calls) :
         /\ upsert_calls[k].conflict_col = "Tend ID"
         /\ upsert_calls[k].rows = IF k = 1 THEN gh_rows(norm.rows)
                                   ELSE row_payload(norm.rows)
         /\ upsert_calls[k].sent <=> (upsert_calls[k].rows # <<>>)
         /\ ~upsert_calls[k].sent => upsert_calls[k].ok
    /\ (RunEnded /\ ReachedPersistence) =>
          \/ Len(upsert_calls) = 2
          \/ /\ upsert_calls[1].sent /\ ~upsert_calls[1].ok
             /\ error = "APIError"
    /\ pc = "upsert_row" => Len(upsert_calls) = 1 /\ upsert_calls[1].ok
    /\ (pc = "done" /\ ~DfEmpty(raw)) => Len(upsert_calls) = 2

\* Group A had no record: nothing was sent for it, and group B was sent.
C16_Witness ==
    /\ pc = "done"
    /\ Len(upsert_calls) = 2
    /\ ~upsert_calls[1].sent
    /\ upsert_calls[2].sent /\ upsert_calls[2].ok

\* The second run over the folder and the store the first run left, both
\* runs having run to their end without an error.
RanTwice == runs = 2 /\ pc = "done" /\ prev.pc = "done"

\* C17: the second of two runs in a row over an unchanged folder produces
\* the two record sets the first run produced, and leaves the store as the
\* first run left it.
C17_SecondRunChangesNothing ==
    RanTwice =>
      /\ gh_rows(norm.rows) = gh_rows(prev.norm.rows)
      /\ row_payload(norm.rows) = row_payload(prev.norm.rows)
      /\ store = prev.store

\* The rows of the file that are header lines, and every row of it.
FileRows == IF csv_path = <<>> THEN {} ELSE Range(csv_path[1])
FileHeaders == {clean_headers(h) : h \in {r \in FileRows : IsHeaderRow(r)}}

\* The last position of a name in a header.
LastPosition(headers, name) ==
    CHOOSE p \in 1..Len(headers) :
        headers[p] = name /\ \A q \in (p + 1)..Len(headers) : headers[q] # name

\* C18: for every header and every row, row_to_dict returns a mapping whose
\* keys are exactly the header's names; a name past the end of a shorter
\* row maps to the empty string, the cells of a longer row past the header's
\* width are dropped, and every other name maps to the row's cell under it.
C18_RowFittedToHeader ==
    \A headers \in FileHeaders : \A row \in FileRows :
       LET rec == row_to_dict(headers, row)
       IN  /\ DOMAIN rec.val = Range(headers)
           /\ Range(rec.keys) = Range(headers)
           /\ \A name \in Range(headers) :
                LET p == LastPosition(headers, name)
                IN  rec.val[name] = IF p <= Len(row) THEN row[p] ELSE Empty

\* A file with a row shorter and a row longer than its header was read.
C18_Witness ==
    /\ Parsed
    /\ Len(raw.rows) >= 2
    /\ \E headers \in FileHeaders :
         /\ \E row \in FileRows : row # <<>> /\ ~IsHeaderRow(row) /\ Len(row) < Len(headers)
         /\ \E row \in FileRows : Len(row) > Len(headers)

\* The column of raw that holds the start dates.
DateColumn == CHOOSE c \in Range(raw.columns) : StrLower(c) = Str("start date")

\* A date cell with text that neither the strict format nor the fallback
\* parser reads.
Unparseable(cell) ==
    /\ cell # NaN
    /\ StrStrip(cell) # Empty
    /\ StrStrip(cell) \notin {Str(d) : d \in StrictDates \cup FallbackDates}

\* The row with a date of the strict format in place of its own.
WithValidDate(r) == [r EXCEPT ![DateColumn] = Str("03/14/2024")]

\* C19: a row whose Start Date cannot be parsed is not dropped and does not
\* abort the run; its record has Date None, and every other field as the
\* same row with a valid date would have it.
C19_BadDateAbsorbed ==
    (Transformed /\ AllRequiredPresent) =>
      /\ norm.error = ""
      /\ Len(norm.rows) = Len(KeptRows)
      /\ \A j \in 1..Len(norm.rows) :
           Unparseable(KeptRows[j][DateColumn]) =>
             /\ norm.rows[j]["Date"] = None
             /\ \E order \in OptionalOrders :
                  LET valid == OutRow(raw, WithValidDate(KeptRows[j]),
                                      spacing_col(raw, order))
                  IN  /\ valid["Date"] = Str("2024-03-14")
                      /\ \A c \in OutColumns \ {"Date"} : norm.rows[j][c] = valid[c]

\* A row with the date "not a date" was emitted, without a date.
C19_Witness ==
    /\ Transformed
    /\ AllRequiredPresent
    /\ \E j \in 1..Len(norm.rows) :
         /\ Unparseable(KeptRows[j][DateColumn])
         /\ norm.rows[j]["Tend ID"] = Str("T2")
         /\ norm.rows[j]["Date"] = None
         /\ norm.rows[j]["Plant Name"] = Str("Kale")

\* The columns of raw whose name is a spelling of Task Type.
TaskTypeColumns == {c \in Range(raw.columns) : StrLower(c) = Str("task type")}

\* The row's own Task Type cell: the one under its section's spelling.
OwnTaskType(r) ==
    LET own == {c \in TaskTypeColumns : r[c] # NaN}
    IN  IF own = {} THEN NaN ELSE r[CHOOSE c \in own : TRUE]

\* C20: the task_type of every emitted row is the trimmed value of the
\* row's own Task Type cell, whichever letter case its section header uses
\* for the column.
C20_OwnTaskType ==
    (Transformed /\ AllRequiredPresent) =>
      /\ Len(norm.rows) = Len(KeptRows)
      /\ \A j \in 1..Len(norm.rows) :
           OwnTaskType(KeptRows[j]) # NaN =>
              norm.rows[j]["task_type"] = NoneIfBlank(StrStrip(OwnTaskType(KeptRows[j])))

\* The column of raw that holds the composite Planting values.
PlantingColumn == CHOOSE c \in Range(raw.columns) : StrLower(c) = Str("planting")

\* The parts of a composite value: the pieces between the separators that
\* are not blank, trimmed, in order.
CompositeParts(v) ==
    LET pieces == StrSplitOn(v, SEP)
        idx == {i \in 1..Len(pieces) : StrStrip(pieces[i]) # Empty}
    IN  [k \in 1..Cardinality(idx) |->
            StrStrip(pieces[CHOOSE i \in idx :
                               Cardinality({m \in idx : m < i}) = k - 1])]

\* What the claim says split_planting returns.
SplitAsClaimed(v) ==
    IF v = None \/ v = NaN \/ StrStrip(v) = Empty THEN <<None, None>>
    ELSE LET parts == CompositeParts(v)
         IN  <<IF Len(parts) >= 1 THEN parts[1] ELSE None,
               IF Len(parts) >= 2 THEN parts[2] ELSE None>>

\* C21: for every Planting value, the plant name is the first non-empty
\* trimmed part between the separators " - " and the variety the second
\* (None when there is none), further parts are ignored, and both are None
\* for an absent, empty or whitespace-only value.
C21_SplitPlanting ==
    (Transformed /\ AllRequiredPresent) =>
      /\ Len(norm.rows) = Len(KeptRows)
      /\ \A j \in 1..Len(norm.rows) :
           LET claimed == SplitAsClaimed(KeptRows[j][PlantingColumn])
           IN  /\ norm.rows[j]["Plant Name"] = claimed[1]
               /\ norm.rows[j]["Variety"] = claimed[2]

\* The configured drive identifier is empty or the built-in default.
ProbesDue == cfg_drive = "" \/ cfg_drive = DEFAULT_DRIVE

ReqsOf(op) == {k \in 1..Len(reqs) : reqs[k].op = op}

\* Both probes of the run succeeded and the drives probe listed a drive.
ProbedADrive ==
    /\ \E k \in ReqsOf("site") : reqs[k].ok
    /\ \E k \in ReqsOf("drives") : reqs[k].ok
    /\ drive_list # <<>>

\* C22: with an empty or default configured drive, list_csv_files probes the
\* site and then its drives before any listing; when both probes succeed
\* and list a drive, every listing request of the run uses the first listed
\* drive, and otherwise the configured one, the run going on after a failed
\* probe; with any other configured drive no probe is made and every
\* listing request uses the configured drive.
C22_DriveProbe ==
    /\ ~ProbesDue =>
          /\ ReqsOf("site") = {} /\ ReqsOf("drives") = {}
          /\ \A k \in ListingReqs : reqs[k].drive = cfg_drive
    /\ ProbesDue =>
          /\ Cardinality(ReqsOf("site")) <= 1 /\ Cardinality(ReqsOf("drives")) <= 1
          /\ \A k \in ReqsOf("drives") : \E m \in ReqsOf("site") : m < k /\ reqs[m].ok
          /\ \A k \in ListingReqs :
               /\ \E m \in ReqsOf("site") : m < k
               /\ (\E m \in ReqsOf("site") : reqs[m].ok) =>
                     \E m \in ReqsOf("drives") : m < k
               /\ reqs[k].drive = IF ProbedADrive THEN drive_list[1] ELSE cfg_drive
          /\ \A k \in ReqsOf("site") \cup ReqsOf("drives") :
               (k = Len(reqs) /\ ~reqs[k].ok) => (pc = "direct" /\ error = "")

\* Both probes succeeded and a listing was asked of the first listed drive.
C22_Witness ==
    /\ cfg_drive = DEFAULT_DRIVE
    /\ ProbedADrive
    /\ \E k \in ListingReqs : reqs[k].drive = drive_list[1] /\ reqs[k].drive # cfg_drive
    /\ \E k \in ListingReqs : reqs[k].op = "item_children"

====
